---- MODULE Spec2Model ----
(***************************************************************************)
(* A model of drive/missing_files.py: main lists the source inventory with *)
(* a subprocess (ListHDFS), lists the destination bucket over the storage  *)
(* API (ListGCS), compares the two inventories and prints a report.         *)
(*                                                                         *)
(* Text is modelled as sequences of one-character strings, so that         *)
(* splitlines, split, urlparse and slicing work on characters.              *)
(***************************************************************************)
EXTENDS Integers, Sequences, FiniteSets, TLC

\* Bounds of the model.
MaxLines == 3        \* lines the listing subprocess prints
PipeCapacity == 48   \* characters the stdout pipe buffers (64 KiB on Linux, scaled down)
MaxPathLen == 3      \* characters of the destination URL after its authority
MaxItems == 2        \* objects in the list-objects response

VARIABLES
  pc,             \* position of main
  error,          \* the uncaught exception, type "none" while there is none
  printed,        \* the lines written to standard output, in order
  listing,        \* what the listing subprocess is going to print (line layouts)
  child,          \* the subprocess: state, characters still to write, exit code
  pipe,           \* the characters buffered in the subprocess's stdout pipe
  stdout,         \* what communicate() has read
  files,          \* ListHDFS's local `files` after line 115
  hdfs_items,     \* main's hdfs_items
  parsed,         \* ListGCS's local `parsed`, the split --outputpath
  bucket,         \* ListGCS's local `bucket`
  prefix,         \* ListGCS's local `prefix`
  response,       \* ListGCS's local `response`
  gcs_items,      \* main's gcs_items
  todo,           \* the values of hdfs_items the loop has yet to visit
  missing_items,  \* main's missing_items
  invalid_size    \* main's invalid_size

vars == <<pc, error, printed, listing, child, pipe, stdout, files, hdfs_items,
          parsed, bucket, prefix, response, gcs_items, todo, missing_items, invalid_size>>

----------------------------------------------------------------------------
\* Helpers on sequences.

Range(s) == {s[i] : i \in 1..Len(s)}

Last(s) == s[Len(s)]

\* s[n:] of Python for n >= 0: never fails, also on the empty string.
SliceFrom(s, n) == SubSeq(s, n + 1, Len(s))

\* s[:-1] of Python.
DropLast(s) == SubSeq(s, 1, Len(s) - 1)

RECURSIVE Join(_, _)
\* sep.join(parts)
Join(parts, sep) ==
  IF parts = <<>> THEN <<>>
  ELSE IF Len(parts) = 1 THEN parts[1]
  ELSE parts[1] \o sep \o Join(Tail(parts), sep)

SeqsUpTo(S, n) == UNION {[1..k -> S] : k \in 0..n}

Permutations_(S) ==
  {s \in [1..Cardinality(S) -> S] : \A i, j \in 1..Cardinality(S) : s[i] = s[j] => i = j}

EmptyDict == [k \in {} |-> k]

NoError == [type |-> "none", args |-> <<>>]

----------------------------------------------------------------------------
\* The flags (lines 28-36).

ls_command == <<"hadoop", "fs", "-ls">>

inputpath == "/in"

\* command of ListHDFS (lines 86-88).
Command == Append(ls_command, inputpath)

----------------------------------------------------------------------------
\* The listing subprocess and what it prints.

\* The eight columns of an `hadoop fs -ls` line for `path` of `size`.
EntryFields(path, size) ==
  << <<"-">>, <<"3">>, <<"u">>, <<"g">>, size, <<"d">>, <<"t">>, path >>

LineLayouts ==
  { [fields |-> EntryFields(<<"a">>, <<"1">>), sep |-> <<" ">>, lead |-> <<>>],
    [fields |-> EntryFields(<<"a">>, <<"2">>), sep |-> <<" ", " ">>, lead |-> <<>>],
    [fields |-> EntryFields(<<"b">>, <<"1", "0">>), sep |-> <<"\t">>, lead |-> <<" ">>],
    [fields |-> EntryFields(<<".">>, <<"1">>), sep |-> <<" ">>, lead |-> <<>>],
    [fields |-> EntryFields(<<".", ".">>, <<"1">>), sep |-> <<" ">>, lead |-> <<>>],
    [fields |-> << <<"F">>, <<"2">>, <<"i">> >>, sep |-> <<" ">>, lead |-> <<>>],
    [fields |-> Append(EntryFields(<<"a">>, <<"1">>), <<"b">>), sep |-> <<" ">>, lead |-> <<>>],
    [fields |-> SubSeq(EntryFields(<<"b">>, <<"1">>), 2, 8), sep |-> <<" ">>, lead |-> <<>>],
    [fields |-> <<>>, sep |-> <<" ">>, lead |-> <<>>] }

Listings == SeqsUpTo(LineLayouts, MaxLines)

ExitCodes == {0, 1}

RenderLine(layout) == layout.lead \o Join(layout.fields, layout.sep) \o layout.lead

RECURSIVE RenderListing(_)
\* The characters the subprocess writes: each line followed by a newline.
RenderListing(lst) ==
  IF lst = <<>> THEN <<>>
  ELSE RenderLine(Head(lst)) \o <<"\n">> \o RenderListing(Tail(lst))

NoChild == [state |-> "none", pending |-> <<>>, exit |-> 0]

----------------------------------------------------------------------------
\* ListHDFS's parsing (lines 98-116).

Whitespace == {" ", "\t", "\n"}

RECURSIVE SplitLinesFrom(_, _)
SplitLinesFrom(s, cur) ==
  IF s = <<>> THEN (IF cur = <<>> THEN <<>> ELSE <<cur>>)
  ELSE IF Head(s) = "\n" THEN <<cur>> \o SplitLinesFrom(Tail(s), <<>>)
  ELSE SplitLinesFrom(Tail(s), Append(cur, Head(s)))

\* str.splitlines(): cut at each newline, no empty last line.
SplitLines(s) == SplitLinesFrom(s, <<>>)

RECURSIVE SplitFrom(_, _)
SplitFrom(s, cur) ==
  IF s = <<>> THEN (IF cur = <<>> THEN <<>> ELSE <<cur>>)
  ELSE IF Head(s) \in Whitespace
       THEN (IF cur = <<>> THEN <<>> ELSE <<cur>>) \o SplitFrom(Tail(s), <<>>)
       ELSE SplitFrom(Tail(s), Append(cur, Head(s)))

\* str.split(): the maximal runs of non-whitespace characters.
Split(l) == SplitFrom(l, <<>>)

FileInfo(path, size) == [path |-> path, size |-> size]

\* ParseLine with the size read one column too early (fields[3]).
ParseLineSizeColumnOff(l) ==
  LET fields == Split(l) IN
  IF Len(fields) /= 8 THEN <<>>
  ELSE LET path == Last(fields) IN
       IF path \in {<<".">>, <<".", ".">>} THEN <<>>
       ELSE <<FileInfo(path, fields[4])>>

\* One pass of the loop body, lines 103-113: the FileInfo the line adds, if any.
ParseLine(l) ==
  LET fields == Split(l) IN
  IF Len(fields) /= 8 THEN <<>>
  ELSE LET path == Last(fields) IN
       IF path \in {<<".">>, <<".", ".">>} THEN <<>>
       ELSE <<FileInfo(path, fields[5])>>

RECURSIVE ParseLines(_)
\* The list `files` after the loop of lines 102-113.
ParseLines(lines) ==
  IF lines = <<>> THEN <<>>
  ELSE ParseLine(Head(lines)) \o ParseLines(Tail(lines))

\* dict([(f.path, f) for f in files]): the last entry of a path wins.
DictByPath(fs) ==
  [p \in {fs[i].path : i \in 1..Len(fs)} |->
     fs[CHOOSE i \in 1..Len(fs) :
          fs[i].path = p /\ \A j \in (i + 1)..Len(fs) : fs[j].path /= p]]

ParseListingOutput(out) == DictByPath(ParseLines(SplitLines(out)))

\* "Command:%s failed with exit code %d" % args: the number of values must be
\* the number of conversions.
PercentFormat(pieces, args) ==
  IF Len(args) /= Len(pieces) - 1 THEN [raised |-> "TypeError", text |-> <<>>]
  ELSE [raised |-> "none",
        text |-> <<pieces[1]>> \o
                 Join([i \in 1..Len(args) |-> args[i] \o <<pieces[i + 1]>>], <<>>)]

\* Lines 94-95: `%` binds tighter than the comma, so the format string with two
\* conversions is applied to the joined command alone.
CommandFailed(command, retcode) ==
  LET text == PercentFormat(<<"Command:", " failed with exit code ", "">>,
                            << Join([i \in 1..Len(command) |-> <<command[i]>>], <<" ">>) >>)
  IN IF text.raised /= "none"
     THEN [type |-> text.raised, args |-> <<>>]
     ELSE [type |-> "Exception", args |-> text.text \o <<ToString(retcode)>>]

----------------------------------------------------------------------------
\* ListGCS (lines 119-149).

\* The values of --outputpath are bucket-qualified URLs: `g://b` or `//b`,
\* followed by the rest of the URL.
UrlHeads == { <<"g", ":", "/", "/", "b">>, <<"/", "/", "b">> }

Urls == {h \o p : h \in UrlHeads, p \in SeqsUpTo({"/", "x"}, MaxPathLen)}

\* The letters a scheme is made of.
SchemeChars == {"g", "b", "x"}

\* str.find(c), counted from 1; 0 when c does not occur.
Find(s, c) ==
  IF \E i \in 1..Len(s) : s[i] = c
  THEN CHOOSE i \in 1..Len(s) : s[i] = c /\ \A j \in 1..(i - 1) : s[j] /= c
  ELSE 0

\* urlparse.urlparse(url), line 130: the scheme up to the first colon, the
\* authority after `//` up to the next slash, and the rest as the path.
UrlParse(url) ==
  LET i == Find(url, ":")
      hasScheme == i > 1 /\ \A j \in 1..(i - 1) : url[j] \in SchemeChars
      rest == IF hasScheme THEN SliceFrom(url, i) ELSE url
      hasNetloc == Len(rest) >= 2 /\ rest[1] = "/" /\ rest[2] = "/"
      after == SliceFrom(rest, 2)
      k == Find(after, "/")
      n == IF k = 0 THEN Len(after) ELSE k - 1
  IN [scheme |-> IF hasScheme THEN SubSeq(url, 1, i - 1) ELSE <<>>,
      netloc |-> IF hasNetloc THEN SubSeq(after, 1, n) ELSE <<>>,
      path   |-> IF hasNetloc THEN SliceFrom(after, n) ELSE rest]

NoUrl == [scheme |-> <<>>, netloc |-> <<>>, path |-> <<>>]

delimiter == "/"

\* NormalizePrefix without lines 135-136: one leading character only.
NormalizePrefixOneLeading(path) ==
  LET p1 == SliceFrom(path, 1) IN
  IF p1 = <<>> THEN [raised |-> "IndexError", prefix |-> p1]
  ELSE [raised |-> "none",
        prefix |-> IF Last(p1) = delimiter THEN DropLast(p1) ELSE p1]

\* Lines 133-139: the prefix of the listing, or the IndexError of prefix[0]
\* or prefix[-1] on an empty string.
NormalizePrefix(path) ==
  LET p1 == SliceFrom(path, 1) IN
  IF p1 = <<>> THEN [raised |-> "IndexError", prefix |-> p1]
  ELSE LET p2 == IF p1[1] = delimiter THEN SliceFrom(p1, 1) ELSE p1 IN
       IF p2 = <<>> THEN [raised |-> "IndexError", prefix |-> p2]
       ELSE [raised |-> "none",
             prefix |-> IF Last(p2) = delimiter THEN DropLast(p2) ELSE p2]

\* The object records the API may return: name and size (a decimal string).
GcsObjects ==
  { [name |-> <<"a">>, size |-> <<"1">>],
    [name |-> <<"a">>, size |-> <<"2">>],
    [name |-> <<"c">>, size |-> <<"1">>] }

\* The responses of a list-objects call that succeeds: without an `items`
\* field, or with a list of items.
Responses ==
  {[has_items |-> FALSE, items |-> <<>>]} \cup
  {[has_items |-> TRUE, items |-> its] : its \in SeqsUpTo(GcsObjects, MaxItems)}

NoResponse == [has_items |-> FALSE, items |-> <<>>]

GCFileInfo(info) == [info |-> info]

\* GCFileInfo.size, lines 76-78.
GCSize(g) == g.info.size

\* Lines 146-147: dict([(item['name'], GCFileInfo(item)) ...]), last one wins.
DictByName(its) ==
  [n \in {its[i].name : i \in 1..Len(its)} |->
     GCFileInfo(its[CHOOSE i \in 1..Len(its) :
                      its[i].name = n /\ \A j \in (i + 1)..Len(its) : its[j].name /= n])]

----------------------------------------------------------------------------
\* main's comparison and report (lines 166-187).

\* The names bound in main and in the module when line 178 runs.
BoundNames ==
  {"argv", "unparsed", "hdfs_items", "gcs_items", "missing_items", "invalid_size",
   "hitem", "FLAGS", "ListHDFS", "ListGCS", "FileInfo", "GCFileInfo", "OAUTH_SCOPE"}

\* main's two inventories.
Inventories == [hdfs_items |-> hdfs_items, gcs_items |-> gcs_items]

\* IteratedItems with the two inventories swapped: the loop walks gcs_items.
IteratedItemsSwapped(inv) ==
  [n \in DOMAIN inv.gcs_items |-> FileInfo(n, GCSize(inv.gcs_items[n]))]

\* Line 173: the dict the loop iterates over.
IteratedItems(inv) == inv.hdfs_items

\* hdfs_items.values(): the values in some order of the dict's.
ValueOrders(d) == {[i \in 1..Len(o) |-> d[o[i]]] : o \in Permutations_(DOMAIN d)}

\* One pass of the loop body, lines 174-180.
CompareItem(hitem, gcs, missing, invalid) ==
  IF ~(hitem.path \in DOMAIN gcs)
  THEN [raised |-> "none", missing |-> Append(missing, hitem), invalid |-> invalid]
  ELSE IF ~("gcs_items_items" \in BoundNames)
  THEN [raised |-> "NameError", missing |-> missing, invalid |-> invalid]
  ELSE LET gitem == gcs[hitem.path] IN
       [raised |-> "none", missing |-> missing,
        invalid |-> IF GCSize(gitem) /= hitem.size THEN Append(invalid, hitem)
                    ELSE invalid]

RECURSIVE RunCompare(_, _, _, _)
\* The loop of lines 173-180 over `items`, up to its end or the first exception.
RunCompare(items, gcs, missing, invalid) ==
  IF items = <<>> THEN [raised |-> "none", missing |-> missing, invalid |-> invalid]
  ELSE LET r == CompareItem(Head(items), gcs, missing, invalid) IN
       IF r.raised /= "none" THEN r
       ELSE RunCompare(Tail(items), gcs, r.missing, r.invalid)

Paths(items) == [i \in 1..Len(items) |-> items[i].path]

\* Lines 166-167.
CountLines(gcs, hdfs) ==
  << <<"GCS Number of items:", ToString(Cardinality(DOMAIN gcs))>>,
     <<"HDFS Number of items:", ToString(Cardinality(DOMAIN hdfs))>> >>

\* Lines 182-187.
ListLines(invalid, missing) ==
  << <<"The following items on GCS have incorrect size:">>,
     Join(Paths(invalid), <<"\n">>),
     <<"">>,
     <<"The following items are not in gcs:">>,
     Join(Paths(missing), <<"\n">>) >>

----------------------------------------------------------------------------
Init ==
  /\ pc = "ListHDFS"
  /\ error = NoError
  /\ printed = <<>>
  /\ listing = <<>>
  /\ child = NoChild
  /\ pipe = <<>>
  /\ stdout = <<>>
  /\ files = EmptyDict
  /\ hdfs_items = EmptyDict
  /\ parsed = NoUrl
  /\ bucket = <<>>
  /\ prefix = <<>>
  /\ response = NoResponse
  /\ gcs_items = EmptyDict
  /\ todo = <<>>
  /\ missing_items = <<>>
  /\ invalid_size = <<>>

Raise(e) == pc' = "error" /\ error' = e

\* Lines 86-90: the command is started with its stdout connected to a pipe.
Popen ==
  /\ pc = "ListHDFS"
  /\ \E lst \in Listings, code \in ExitCodes :
       /\ listing' = lst
       /\ child' = [state |-> "running", pending |-> RenderListing(lst), exit |-> code]
  /\ pc' = "wait"
  /\ UNCHANGED <<error, printed, pipe, stdout, files, hdfs_items, parsed, bucket, prefix,
                 response, gcs_items, todo, missing_items, invalid_size>>

\* The subprocess writes to its stdout: what fits in the pipe goes in, and the
\* write blocks for the rest.
ChildWrite ==
  /\ child.state = "running"
  /\ child.pending /= <<>>
  /\ Len(pipe) < PipeCapacity
  /\ LET room == PipeCapacity - Len(pipe)
         n == IF Len(child.pending) < room THEN Len(child.pending) ELSE room
     IN /\ pipe' = pipe \o SubSeq(child.pending, 1, n)
        /\ child' = [child EXCEPT !.pending = SliceFrom(child.pending, n)]
  /\ UNCHANGED <<pc, error, printed, listing, stdout, files, hdfs_items, parsed, bucket, prefix,
                 response, gcs_items, todo, missing_items, invalid_size>>

\* The subprocess exits once it has written everything.
ChildExit ==
  /\ child.state = "running"
  /\ child.pending = <<>>
  /\ child' = [child EXCEPT !.state = "exited"]
  /\ UNCHANGED <<pc, error, printed, listing, pipe, stdout, files, hdfs_items, parsed, bucket,
                 prefix, response, gcs_items, todo, missing_items, invalid_size>>

\* Lines 91-95: proc.wait() returns when the subprocess has exited; a non-zero
\* exit code raises.
Wait ==
  /\ pc = "wait"
  /\ child.state = "exited"
  /\ IF child.exit /= 0
     THEN Raise(CommandFailed(Command, child.exit))
     ELSE pc' = "communicate" /\ UNCHANGED error
  /\ UNCHANGED <<printed, listing, child, pipe, stdout, files, hdfs_items, parsed, bucket, prefix,
                 response, gcs_items, todo, missing_items, invalid_size>>

\* Line 96: communicate() reads the pipe ...
CommunicateRead ==
  /\ pc = "communicate"
  /\ pipe /= <<>>
  /\ stdout' = stdout \o pipe
  /\ pipe' = <<>>
  /\ UNCHANGED <<pc, error, printed, listing, child, files, hdfs_items, parsed, bucket, prefix,
                 response, gcs_items, todo, missing_items, invalid_size>>

\* ... until end of file; lines 98-115 then parse what was read.
CommunicateEOF ==
  /\ pc = "communicate"
  /\ pipe = <<>>
  /\ child.state = "exited"
  /\ files' = ParseListingOutput(stdout)
  /\ pc' = "hdfs_return"
  /\ UNCHANGED <<error, printed, listing, child, pipe, stdout, hdfs_items, parsed, bucket, prefix,
                 response, gcs_items, todo, missing_items, invalid_size>>

\* Lines 116 and 163: ListHDFS returns `files` into hdfs_items; its locals go.
ReturnHDFS ==
  /\ pc = "hdfs_return"
  /\ hdfs_items' = files
  /\ files' = EmptyDict
  /\ listing' = <<>>
  /\ child' = NoChild
  /\ stdout' = <<>>
  /\ pc' = "ListGCS"
  /\ UNCHANGED <<error, printed, pipe, parsed, bucket, prefix, response, gcs_items, todo,
                 missing_items, invalid_size>>

\* Lines 120-127: the OAuth helper and the API client; either may fail.
GCSSetup ==
  /\ pc = "ListGCS"
  /\ \E ok \in BOOLEAN :
       IF ok THEN pc' = "parse_url" /\ UNCHANGED error
       ELSE Raise([type |-> "AuthError", args |-> <<>>])
  /\ UNCHANGED <<printed, listing, child, pipe, stdout, files, hdfs_items, parsed, bucket, prefix,
                 response, gcs_items, todo, missing_items, invalid_size>>

\* Lines 130-139: bucket and prefix from --outputpath.
ParseOutputPath ==
  /\ pc = "parse_url"
  /\ \E url \in Urls :
       LET u == UrlParse(url)
           norm == NormalizePrefix(u.path)
       IN /\ parsed' = u
          /\ bucket' = u.netloc
          /\ prefix' = norm.prefix
          /\ IF norm.raised /= "none"
             THEN Raise([type |-> norm.raised, args |-> <<>>])
             ELSE pc' = "list_objects" /\ UNCHANGED error
  /\ UNCHANGED <<printed, listing, child, pipe, stdout, files, hdfs_items, response,
                 gcs_items, todo, missing_items, invalid_size>>

\* Line 141: objects.list(bucket, prefix).execute() fails or answers.
ListObjects ==
  /\ pc = "list_objects"
  /\ \/ /\ Raise([type |-> "HttpError", args |-> <<>>])
        /\ UNCHANGED response
     \/ /\ \E r \in Responses : response' = r
        /\ pc' = "check_items"
        /\ UNCHANGED error
  /\ UNCHANGED <<printed, listing, child, pipe, stdout, files, hdfs_items, parsed, bucket, prefix,
                 gcs_items, todo, missing_items, invalid_size>>

\* Lines 143-149 and 164: no `items` field raises; else the items become
\* gcs_items and ListGCS's locals go.
ReturnGCS ==
  /\ pc = "check_items"
  /\ IF ~response.has_items
     THEN /\ Raise([type |-> "Exception", args |-> <<"No files found in:">>])
          /\ UNCHANGED <<gcs_items, parsed, bucket, prefix, response>>
     ELSE /\ gcs_items' = DictByName(response.items)
          /\ parsed' = NoUrl
          /\ bucket' = <<>>
          /\ prefix' = <<>>
          /\ response' = NoResponse
          /\ pc' = "counts"
          /\ UNCHANGED error
  /\ UNCHANGED <<printed, listing, child, pipe, stdout, files, hdfs_items, todo,
                 missing_items, invalid_size>>

\* Lines 166-173: the two counts are printed, the lists start empty and the
\* loop takes the values of the iterated dict.
EmitCounts ==
  /\ pc = "counts"
  /\ printed' = printed \o CountLines(gcs_items, hdfs_items)
  /\ missing_items' = <<>>
  /\ invalid_size' = <<>>
  /\ \E o \in ValueOrders(IteratedItems(Inventories)) : todo' = o
  /\ pc' = "compare"
  /\ UNCHANGED <<error, listing, child, pipe, stdout, files, hdfs_items, parsed, bucket, prefix,
                 response, gcs_items>>

\* Lines 173-180: one pass of the loop.
CompareNext ==
  /\ pc = "compare"
  /\ todo /= <<>>
  /\ LET r == CompareItem(Head(todo), gcs_items, missing_items, invalid_size) IN
       /\ missing_items' = r.missing
       /\ invalid_size' = r.invalid
       /\ IF r.raised /= "none"
          THEN Raise([type |-> r.raised, args |-> <<"gcs_items_items">>]) /\ UNCHANGED todo
          ELSE todo' = Tail(todo) /\ UNCHANGED <<pc, error>>
  /\ UNCHANGED <<printed, listing, child, pipe, stdout, files, hdfs_items, parsed, bucket, prefix,
                 response, gcs_items>>

\* Lines 182-187: the loop is over; the two lists are printed.
EmitLists ==
  /\ pc = "compare"
  /\ todo = <<>>
  /\ printed' = printed \o ListLines(invalid_size, missing_items)
  /\ pc' = "done"
  /\ UNCHANGED <<error, listing, child, pipe, stdout, files, hdfs_items, parsed, bucket, prefix,
                 response, gcs_items, todo, missing_items, invalid_size>>

Next ==
  \/ Popen
  \/ ChildWrite
  \/ ChildExit
  \/ Wait
  \/ CommunicateRead
  \/ CommunicateEOF
  \/ ReturnHDFS
  \/ GCSSetup
  \/ ParseOutputPath
  \/ ListObjects
  \/ ReturnGCS
  \/ EmitCounts
  \/ CompareNext
  \/ EmitLists

Spec == Init /\ [][Next]_vars

----------------------------------------------------------------------------
\* Properties.

\* The comparison loop has ended, by reaching the report or by an exception.
ComparisonEnded == pc = "done" \/ (pc = "error" /\ error.type = "NameError")

SourceOnly == DOMAIN hdfs_items \ DOMAIN gcs_items

InBoth == DOMAIN hdfs_items \cap DOMAIN gcs_items

DestOnly == DOMAIN gcs_items \ DOMAIN hdfs_items

DigitValue(c) == CHOOSE n \in 0..9 : ToString(n) = c

RECURSIVE Number(_)
\* The number a decimal string denotes.
Number(digits) ==
  IF digits = <<>> THEN 0 ELSE 10 * Number(DropLast(digits)) + DigitValue(Last(digits))

\* C1: for any two inventories the comparison runs to completion, and then
\* missing_items holds exactly the source entries whose path is no key of the
\* destination inventory, none of which is in invalid_size.
C1_MissingExactlySourceOnly ==
  ComparisonEnded =>
    /\ pc = "done"
    /\ Range(missing_items) = {hdfs_items[p] : p \in SourceOnly}
    /\ Len(missing_items) = Cardinality(SourceOnly)
    /\ \A p \in SourceOnly : hdfs_items[p] \notin Range(invalid_size)

\* C2: for every source entry whose path is a key of the destination
\* inventory the comparison completes without error, and the entry is in
\* invalid_size exactly when the two sizes differ as numbers, and it is never in
\* missing_items.
C2_SizeMismatchNumeric ==
  ComparisonEnded =>
    \A p \in InBoth :
      /\ pc = "done"
      /\ hdfs_items[p] \notin Range(missing_items)
      /\ (hdfs_items[p] \in Range(invalid_size)) <=>
           (Number(hdfs_items[p].size) /= Number(GCSize(gcs_items[p])))

\* Names a destination inventory may hold besides those it holds.
OtherNames == {<<"c">>, <<"z">>}

\* The destination inventories that differ from gcs_items only in entries
\* whose path is not in the source inventory.
DestOnlyVariants ==
  LET pool == (DestOnly \cup OtherNames) \ DOMAIN hdfs_items IN
  { [n \in InBoth \cup extra |->
       IF n \in InBoth THEN gcs_items[n]
       ELSE GCFileInfo([name |-> n, size |-> <<"7">>])] : extra \in SUBSET pool }

\* C3: a path that only the destination inventory holds is never in
\* missing_items or invalid_size, and the outcome of the comparison (both lists,
\* and whether it raises) is the same for every destination inventory that
\* differs only in destination-only entries.
C3_DestinationOnlyIgnored ==
  /\ \A h \in Range(missing_items) \cup Range(invalid_size) : h.path \notin DestOnly
  /\ pc = "compare" =>
       \A g \in DestOnlyVariants :
         RunCompare(todo, g, missing_items, invalid_size)
           = RunCompare(todo, gcs_items, missing_items, invalid_size)

\* A report was printed for a source entry missing from a destination that
\* holds another path only.
C3_Witness ==
  /\ pc = "done"
  /\ DestOnly /= {}
  /\ missing_items /= <<>>

\* The lines of the listing that make an entry: eight columns, and a path
\* other than `.` and `..`.
EntryLines ==
  {i \in 1..Len(listing) :
     /\ Len(listing[i].fields) = 8
     /\ Last(listing[i].fields) \notin {<<".">>, <<".", ".">>}}

\* C4: when the listing command succeeds, the inventory ListHDFS returns has as
\* keys exactly the last columns of the lines with eight columns whose last
\* column is neither `.` nor `..`, each with the fifth column of (the last of)
\* its lines as size; the other lines add nothing.
C4_ListingParsed ==
  pc = "hdfs_return" =>
    /\ DOMAIN files = {Last(listing[i].fields) : i \in EntryLines}
    /\ \A i \in EntryLines :
         (\A j \in EntryLines : j > i => Last(listing[j].fields) /= Last(listing[i].fields))
           => files[Last(listing[i].fields)]
                = FileInfo(Last(listing[i].fields), listing[i].fields[5])

\* ListHDFS returns from a listing with an entry line, a line of another
\* column count and a `.` line.
C4_Witness ==
  /\ pc = "hdfs_return"
  /\ Len(listing) = 3
  /\ EntryLines /= {}
  /\ \E i \in 1..Len(listing) : Len(listing[i].fields) \notin {0, 8}
  /\ \E i \in 1..Len(listing) : Last(<< <<"x">> >> \o listing[i].fields) = <<".">>

\* C5: when the listing subprocess exits with a non-zero status, ListHDFS
\* raises an error that carries the command line and the exit code, and no
\* inventory is returned.
C5_CommandErrorCarriesCommandAndCode ==
  (pc = "error" /\ child.state = "exited" /\ child.exit /= 0) =>
    /\ error.type = "Exception"
    /\ \A w \in Range(Command) : w \in Range(error.args)
    /\ ToString(child.exit) \in Range(error.args)
    /\ hdfs_items = EmptyDict

\* C6: an empty path, or one that normalizes to an empty prefix, makes ListGCS
\* fail with an invalid-path error before the list-objects call, never with an
\* IndexError.
C6_EmptyPrefixIsInvalidPath ==
  /\ error.type /= "IndexError"
  /\ pc \in {"list_objects", "check_items"} => prefix /= <<>>

\* C7: a list-objects call that returns no item, without an `items` field or
\* with an empty list, makes ListGCS fail, so the comparison and the report are
\* never reached with an empty destination inventory.
C7_EmptyResultFails ==
  pc \in {"counts", "compare", "done"} => gcs_items /= EmptyDict

\* C8: the source listing never blocks for ever: while main waits for the
\* subprocess, main or the subprocess can take a step.
C8_ListingNeverBlocks ==
  pc = "wait" => ENABLED (Wait \/ ChildWrite \/ ChildExit)

\* C9: a run that has ended printed the complete report (the two counts, the
\* size-mismatch header and list, an empty line, the missing header and list) or
\* nothing at all.
C9_ReportCompleteOrAbsent ==
  pc \in {"done", "error"} =>
    \/ printed = <<>>
    \/ /\ pc = "done"
       /\ printed = CountLines(gcs_items, hdfs_items)
                      \o ListLines(invalid_size, missing_items)

\* The path with one leading slash removed if there is one, and one trailing
\* slash removed if there is one.
OneSlashEachEnd(p) ==
  LET a == IF p /= <<>> /\ Head(p) = "/" THEN Tail(p) ELSE p
  IN IF a /= <<>> /\ Last(a) = "/" THEN DropLast(a) ELSE a

\* C10 as stated: the prefix of the list-objects call is the URL path with one
\* leading slash removed if present and one trailing slash removed if present.
C10_PrefixOneSlashEachEnd ==
  pc = "list_objects" => prefix = OneSlashEachEnd(parsed.path)

\* The characters ListGCS drops at the front of the path: the first one, and
\* a slash right after it.
LeadDropped(p) == IF Len(p) >= 2 /\ p[2] = "/" THEN 2 ELSE 1

\* C10 amended: the prefix of the list-objects call is the URL path without
\* its first character, without a slash that follows it, and without one
\* trailing slash; the call is made exactly when something is left after the
\* leading characters are dropped, and otherwise ListGCS raises IndexError.
C10_PrefixAsComputed ==
  LET p == parsed.path IN
  /\ pc = "list_objects" =>
       /\ Len(p) > LeadDropped(p)
       /\ prefix = SubSeq(p, LeadDropped(p) + 1,
                          Len(p) - (IF Last(p) = "/" THEN 1 ELSE 0))
  /\ (pc = "error" /\ error.type = "IndexError") => Len(p) <= LeadDropped(p)

\* The list-objects call is reached for a path that begins with two slashes.
C10_Witness ==
  /\ pc = "list_objects"
  /\ Len(parsed.path) >= 3
  /\ parsed.path[1] = "/"
  /\ parsed.path[2] = "/"

====
